---- MODULE Spec2Model ----
(***************************************************************************)
(* Model of src/trader.py: the per-tick decision engine Trader.run and the *)
(* functions it calls.                                                     *)
(*                                                                         *)
(* Numbers.  Python floats are modelled as exact rationals [n, d] with     *)
(* d > 0 in lowest terms; Python's None is the value with d = 0.  A        *)
(* standard deviation is carried as its square (the sample variance), and  *)
(* every comparison the code makes with a standard deviation is made on    *)
(* the squares.  Floating-point rounding error is not modelled.            *)
(*                                                                         *)
(* Dictionaries are functions whose DOMAIN is the key set; lists are       *)
(* sequences.  An exception leaving Trader.run is the value of `raised`.   *)
(***************************************************************************)
EXTENDS Integers, Sequences, FiniteSets, TLC

VARIABLES
    historical_prices,  \* self.historical_prices : product -> list of prices
    volatility,         \* self.volatility        : product -> variance
    momentum,           \* self.momentum          : product -> rational
    tstate,             \* the TradingState given to the latest Trader.run
    result,             \* the order lists the latest Trader.run returned
    traderData,         \* the state blob the latest Trader.run returned
    raised,             \* the exception that left the latest Trader.run
    moves,              \* how often the market's book changed between ticks
    call                \* the latest direct call of one of the functions

vars == <<historical_prices, volatility, momentum, tstate, result,
          traderData, raised, moves, call>>

-----------------------------------------------------------------------------
(* Rationals *)

None == [n |-> 0, d |-> 0]

IsNone(x) == x.d = 0

Abs(i) == IF i < 0 THEN -i ELSE i

RECURSIVE GCD(_, _)
GCD(a, b) == IF b = 0 THEN a ELSE GCD(b, a % b)

Rat(n, d) ==
    LET s == IF d < 0 THEN -1 ELSE 1
        g == GCD(Abs(n), Abs(d))
    IN  [n |-> (s * n) \div g, d |-> (s * d) \div g]

Num(i) == [n |-> i, d |-> 1]

\* a and b over their least common denominator: <<a', b', denominator>>
Common(a, b) ==
    LET g == GCD(a.d, b.d)
    IN  <<a.n * (b.d \div g), b.n * (a.d \div g), (a.d \div g) * b.d>>

Add(a, b) == LET c == Common(a, b) IN Rat(c[1] + c[2], c[3])

Sub(a, b) == LET c == Common(a, b) IN Rat(c[1] - c[2], c[3])

Mul(a, b) ==
    LET x == Rat(a.n, b.d)
        y == Rat(b.n, a.d)
    IN  Rat(x.n * y.n, x.d * y.d)

Div(a, b) == Mul(a, Rat(b.d, b.n))

Lt(a, b) == LET c == Common(a, b) IN c[1] < c[2]

\* Python truth value of a number or None: None, 0 and 0.0 are false.
Truthy(x) == ~IsNone(x) /\ x.n # 0

\* Python 3 round(): to the nearest integer, ties to the even one.
round(x) ==
    LET f == x.n \div x.d
        r == x.n - f * x.d
    IN  IF 2 * r < x.d THEN f
        ELSE IF 2 * r > x.d THEN f + 1
        ELSE IF f % 2 = 0 THEN f ELSE f + 1

Min2(a, b) == IF a <= b THEN a ELSE b

Max2(a, b) == IF a >= b THEN a ELSE b

SetMin(S) == CHOOSE m \in S : \A k \in S : m <= k

SetMax(S) == CHOOSE m \in S : \A k \in S : m >= k

\* The statistics below are computed as statistics.mean and statistics.stdev
\* compute them, exactly: the prices xs[i] are put over their common
\* denominator D (xs[i] = Scaled(xs, D, i) / D) and summed as integers.
LCM(a, b) == (a \div GCD(a, b)) * b

RECURSIVE Denominator(_, _)
Denominator(xs, i) ==
    IF i = 0 THEN 1 ELSE LCM(Denominator(xs, i - 1), xs[i].d)

Scaled(xs, D, i) == xs[i].n * (D \div xs[i].d)

RECURSIVE ScaledSum(_, _, _)
ScaledSum(xs, D, i) ==
    IF i = 0 THEN 0 ELSE ScaledSum(xs, D, i - 1) + Scaled(xs, D, i)

\* sum of (N * x[j] - sum of x)^2 over j <= i, in units of 1 / D^2
RECURSIVE ScaledSqDev(_, _, _, _)
ScaledSqDev(xs, D, sum, i) ==
    IF i = 0 THEN 0
    ELSE ScaledSqDev(xs, D, sum, i - 1)
         + (Len(xs) * Scaled(xs, D, i) - sum) * (Len(xs) * Scaled(xs, D, i) - sum)

\* statistics.mean
mean(xs) ==
    LET D == Denominator(xs, Len(xs))
    IN  Rat(ScaledSum(xs, D, Len(xs)), Len(xs) * D)

\* statistics.stdev, squared: the sample variance (divisor N - 1).
stdev_sq(xs) ==
    LET D == Denominator(xs, Len(xs))
        sum == ScaledSum(xs, D, Len(xs))
    IN  Rat(ScaledSqDev(xs, D, sum, Len(xs)),
            Len(xs) * Len(xs) * D * D * (Len(xs) - 1))

\* sqrt(v) < c, sqrt(v) > c and sqrt(v) = c for a variance v and an integer c
SigmaLt(v, c) == c > 0 /\ v.n < c * c * v.d

SigmaGt(v, c) == c < 0 \/ v.n > c * c * v.d

SigmaEq(v, c) == c >= 0 /\ v.n = c * c * v.d

-----------------------------------------------------------------------------
(* Dictionaries *)

EmptyDict == <<>>

Get(d, k, default) == IF k \in DOMAIN d THEN d[k] ELSE default

Put(d, k, v) == [x \in DOMAIN d \cup {k} |-> IF x = k THEN v ELSE d[x]]

Restrict(d, keys) == [k \in DOMAIN d \cap keys |-> d[k]]

-----------------------------------------------------------------------------
(* Trader.__init__ *)

Products == {"RAINFOREST_RESIN", "KELP", "SQUID_INK"}

product_parameters ==
    [product \in Products |->
        CASE product = "RAINFOREST_RESIN" ->
                [position_limit |-> 50, fair_value |-> Num(10000),
                 spread |-> 2, min_edge |-> 1]
          [] product = "KELP" ->
                [position_limit |-> 50, fair_value |-> None,
                 spread |-> 3, momentum_window |-> 5,
                 volatility_window |-> 20, min_edge |-> 2]
          [] product = "SQUID_INK" ->
                [position_limit |-> 50, fair_value |-> None,
                 spread |-> 5, mean_reversion_window |-> 15,
                 std_dev_threshold |-> Rat(3, 2), min_edge |-> 3]]

\* self.historical_prices, self.volatility, self.momentum as one value
NewTrader ==
    [historical_prices |-> EmptyDict, volatility |-> EmptyDict,
     momentum |-> EmptyDict]

NoError == ""

-----------------------------------------------------------------------------
(* Trader.calculate_fair_value *)

RECURSIVE total_volume(_)
total_volume(orders) ==
    IF DOMAIN orders = {} THEN 0
    ELSE LET price == CHOOSE p \in DOMAIN orders : TRUE
             rest  == [p \in DOMAIN orders \ {price} |-> orders[p]]
         IN  Abs(orders[price]) + total_volume(rest)

RECURSIVE total_value(_)
total_value(orders) ==
    IF DOMAIN orders = {} THEN 0
    ELSE LET price == CHOOSE p \in DOMAIN orders : TRUE
             rest  == [p \in DOMAIN orders \ {price} |-> orders[p]]
         IN  price * Abs(orders[price]) + total_value(rest)

vwap(orders) ==
    IF total_volume(orders) > 0
    THEN Rat(total_value(orders), total_volume(orders))
    ELSE None

calculate_fair_value(product, order_depth) ==
    IF DOMAIN order_depth.buy_orders = {} \/ DOMAIN order_depth.sell_orders = {}
    THEN product_parameters[product].fair_value
    ELSE
        LET total_bid_volume == total_volume(order_depth.buy_orders)
            total_ask_volume == total_volume(order_depth.sell_orders)
            bid_vwap == vwap(order_depth.buy_orders)
            ask_vwap == vwap(order_depth.sell_orders)
            total    == total_bid_volume + total_ask_volume
        IN  IF Truthy(bid_vwap) /\ Truthy(ask_vwap)
            THEN Add(Mul(bid_vwap, Rat(total_bid_volume, total)),
                     Mul(ask_vwap, Rat(total_ask_volume, total)))
            ELSE IF Truthy(bid_vwap) THEN bid_vwap
            ELSE IF Truthy(ask_vwap) THEN ask_vwap
            ELSE product_parameters[product].fair_value

-----------------------------------------------------------------------------
(* Trader.update_market_metrics *)

Last(xs, window) == SubSeq(xs, Len(xs) - window + 1, Len(xs))

\* a history kept as a ring buffer of the momentum window
append_price_ring(self, product, price) ==
    LET prices == Append(Get(self.historical_prices, product, <<>>), price)
        window == Get(product_parameters[product], "momentum_window", 5)
    IN  [self EXCEPT !.historical_prices =
            Put(@, product, IF Len(prices) > window THEN Tail(prices)
                            ELSE prices)]

append_price(self, product, price) ==
    [self EXCEPT !.historical_prices =
        Put(@, product, Append(Get(@, product, <<>>), price))]

\* the volatility computed as soon as statistics.stdev accepts the history
update_volatility_early(self, product) ==
    LET prices == self.historical_prices[product]
    IN  IF Len(prices) >= 2
        THEN [self EXCEPT !.volatility = Put(@, product, stdev_sq(prices))]
        ELSE self

update_volatility(self, product) ==
    LET window == Get(product_parameters[product], "volatility_window", 20)
        prices == self.historical_prices[product]
    IN  IF Len(prices) >= window
        THEN [self EXCEPT !.volatility =
                 Put(@, product, stdev_sq(Last(prices, window)))]
        ELSE self

\* [self, raised]: the division raises ZeroDivisionError on a zero divisor
update_momentum(self, product) ==
    LET window == Get(product_parameters[product], "momentum_window", 5)
        prices == self.historical_prices[product]
        recent_prices == Last(prices, window)
    IN  IF Len(prices) >= window
        THEN IF recent_prices[1].n = 0
             THEN [self |-> self, raised |-> "ZeroDivisionError"]
             ELSE [self |-> [self EXCEPT !.momentum =
                        Put(@, product,
                            Div(Sub(recent_prices[window], recent_prices[1]),
                                recent_prices[1]))],
                   raised |-> NoError]
        ELSE [self |-> self, raised |-> NoError]

update_market_metrics(self, product, price) ==
    update_momentum(update_volatility(append_price(self, product, price),
                                      product), product)

-----------------------------------------------------------------------------
(* Trader.get_order_volume *)

\* round(5 * vol_scale) with vol_scale = max(0.2, 1 - sigma / 100), for the
\* variance v = sigma^2: x = max(1, 5 - sigma / 20) rounded half to even.
\* x > k - 1/2 iff k = 1 or sigma < 110 - 20 k; x < k + 1/2 iff
\* sigma > 90 - 20 k; the ties are at sigma = 110 - 20 k and 90 - 20 k.
round_5_vol_scale(v) ==
    CHOOSE k \in 1..5 :
        \/ (k = 1 \/ SigmaLt(v, 110 - 20 * k)) /\ SigmaGt(v, 90 - 20 * k)
        \/ k % 2 = 0 /\ k >= 2 /\ SigmaEq(v, 110 - 20 * k)
        \/ k % 2 = 0 /\ SigmaEq(v, 90 - 20 * k)

volume_cap(self, product) ==
    IF product \in DOMAIN self.volatility
    THEN round_5_vol_scale(self.volatility[product])
    ELSE round(Rat(5, 2))

get_order_volume(self, product, position, side, available_volume) ==
    LET position_limit == product_parameters[product].position_limit
        max_position ==
            IF side = "BUY" THEN position_limit - position
            ELSE position_limit + position
        base_volume ==
            Min2(Min2(max_position, available_volume),
                 volume_cap(self, product))
        position_scale == Sub(Num(1), Rat(Abs(position), position_limit))
    IN  Max2(1, round(Mul(Num(base_volume), position_scale)))

-----------------------------------------------------------------------------
(* Trader.check_mean_reversion_signal *)

NoSignal == "None"

\* z_score > threshold and z_score < -threshold for z_score = diff / sigma,
\* sigma = sqrt(v) > 0, threshold > 0
ZAbove(diff, v, threshold) ==
    diff.n > 0 /\ Lt(Mul(Mul(threshold, threshold), v), Mul(diff, diff))

ZBelow(diff, v, threshold) ==
    diff.n < 0 /\ Lt(Mul(Mul(threshold, threshold), v), Mul(diff, diff))

\* the signals the other way round
check_mean_reversion_signal_swapped(self, product, current_price) ==
    LET prices == Get(self.historical_prices, product, <<>>)
        window == product_parameters[product].mean_reversion_window
        threshold == product_parameters[product].std_dev_threshold
        recent_prices == Last(prices, window)
        std_dev == stdev_sq(recent_prices)
        diff == Sub(current_price, mean(recent_prices))
    IN  IF Len(prices) < window \/ std_dev.n = 0
        THEN [signal |-> NoSignal, raised |-> NoError]
        ELSE IF ZAbove(diff, std_dev, threshold)
        THEN [signal |-> "BUY", raised |-> NoError]
        ELSE IF ZBelow(diff, std_dev, threshold)
        THEN [signal |-> "SELL", raised |-> NoError]
        ELSE [signal |-> NoSignal, raised |-> NoError]

\* [signal, raised]
check_mean_reversion_signal(self, product, current_price) ==
    LET prices == Get(self.historical_prices, product, <<>>)
        window == product_parameters[product].mean_reversion_window
        threshold == product_parameters[product].std_dev_threshold
        recent_prices == Last(prices, window)
        std_dev == stdev_sq(recent_prices)
        diff == Sub(current_price, mean(recent_prices))
    IN  IF Len(prices) = 0 THEN [signal |-> NoSignal, raised |-> NoError]
        ELSE IF Len(prices) < window
        THEN [signal |-> NoSignal, raised |-> NoError]
        ELSE IF std_dev.n = 0
        THEN [signal |-> NoSignal, raised |-> NoError]
        ELSE IF IsNone(current_price)
        THEN [signal |-> NoSignal, raised |-> "TypeError"]
        ELSE IF ZAbove(diff, std_dev, threshold)
        THEN [signal |-> "SELL", raised |-> NoError]
        ELSE IF ZBelow(diff, std_dev, threshold)
        THEN [signal |-> "BUY", raised |-> NoError]
        ELSE [signal |-> NoSignal, raised |-> NoError]

-----------------------------------------------------------------------------
(* Trader.run *)

Order(symbol, price, quantity) ==
    [symbol |-> symbol, price |-> price, quantity |-> quantity]

\* jsonpickle.encode / jsonpickle.decode of the saved dictionary; the empty
\* string is the blob of the first tick.
encode(obj) == [text |-> "json", obj |-> obj]

decode(blob) == blob.obj

EmptyData == [text |-> "", obj |-> EmptyDict]

\* [self, raised]: saved_state["historical_prices"] raises KeyError when the
\* key is missing; the other two fields are read with .get(..., {})
restore(trader, state) ==
    IF state.traderData.text # ""
    THEN LET saved_state == decode(state.traderData)
         IN  IF "historical_prices" \notin DOMAIN saved_state
             THEN [self |-> trader, raised |-> "KeyError"]
             ELSE [self |->
                      [historical_prices |-> saved_state["historical_prices"],
                       volatility |-> Get(saved_state, "volatility", EmptyDict),
                       momentum |-> Get(saved_state, "momentum", EmptyDict)],
                   raised |-> NoError]
    ELSE [self |-> trader, raised |-> NoError]

\* the order taking the best ask, if get_order_volume gives a volume > 0
buy_at_best_ask(self, product, position, order_depth) ==
    LET best_ask == SetMin(DOMAIN order_depth.sell_orders)
        available_volume == Abs(order_depth.sell_orders[best_ask])
        buy_volume ==
            get_order_volume(self, product, position, "BUY", available_volume)
    IN  IF buy_volume > 0
        THEN <<Order(product, best_ask, buy_volume)>>
        ELSE <<>>

\* the order hitting the best bid, if get_order_volume gives a volume > 0
sell_at_best_bid(self, product, position, order_depth) ==
    LET best_bid == SetMax(DOMAIN order_depth.buy_orders)
        available_volume == Abs(order_depth.buy_orders[best_bid])
        sell_volume ==
            get_order_volume(self, product, position, "SELL", available_volume)
    IN  IF sell_volume > 0
        THEN <<Order(product, best_bid, -sell_volume)>>
        ELSE <<>>

Traded(orders) == [orders |-> orders, raised |-> NoError]

Failed(exception) == [orders |-> <<>>, raised |-> exception]

\* the RAINFOREST_RESIN branch; arithmetic on a None fair value is a TypeError
trade_resin(self, product, position, order_depth, fair_value) ==
    LET spread == product_parameters[product].spread
        position_factor ==
            Rat(Abs(position), product_parameters[product].position_limit)
        adjusted_spread == Add(Num(spread), Mul(Num(spread), position_factor))
        has_asks == DOMAIN order_depth.sell_orders # {}
        has_bids == DOMAIN order_depth.buy_orders # {}
        best_ask == SetMin(DOMAIN order_depth.sell_orders)
        best_bid == SetMax(DOMAIN order_depth.buy_orders)
        buys ==
            IF has_asks /\ Lt(Num(best_ask), Sub(fair_value, adjusted_spread))
            THEN buy_at_best_ask(self, product, position, order_depth)
            ELSE <<>>
        sells ==
            IF has_bids /\ Lt(Add(fair_value, adjusted_spread), Num(best_bid))
            THEN sell_at_best_bid(self, product, position, order_depth)
            ELSE <<>>
    IN  IF (has_asks \/ has_bids) /\ IsNone(fair_value)
        THEN Failed("TypeError")
        ELSE Traded(buys \o sells)

\* the KELP branch
trade_kelp(self, product, position, order_depth, fair_value) ==
    LET min_edge == product_parameters[product].min_edge
        position_limit == product_parameters[product].position_limit
        momentum_signal == self.momentum[product]
        has_asks == DOMAIN order_depth.sell_orders # {}
        has_bids == DOMAIN order_depth.buy_orders # {}
        best_ask == SetMin(DOMAIN order_depth.sell_orders)
        best_bid == SetMax(DOMAIN order_depth.buy_orders)
    IN  IF product \notin DOMAIN self.momentum THEN Traded(<<>>)
        ELSE IF Lt(Rat(1, 100), momentum_signal) /\ position < position_limit
        THEN IF ~has_asks THEN Traded(<<>>)
             ELSE IF IsNone(fair_value) THEN Failed("TypeError")
             ELSE IF Lt(Num(best_ask), Add(fair_value, Num(min_edge)))
             THEN Traded(buy_at_best_ask(self, product, position, order_depth))
             ELSE Traded(<<>>)
        ELSE IF Lt(momentum_signal, Rat(-1, 100)) /\ position > -position_limit
        THEN IF ~has_bids THEN Traded(<<>>)
             ELSE IF IsNone(fair_value) THEN Failed("TypeError")
             ELSE IF Lt(Sub(fair_value, Num(min_edge)), Num(best_bid))
             THEN Traded(sell_at_best_bid(self, product, position, order_depth))
             ELSE Traded(<<>>)
        ELSE Traded(<<>>)

\* not self.volatility.get(product) or self.volatility[product] < 100
acceptable_volatility(self, product) ==
    \/ product \notin DOMAIN self.volatility
    \/ self.volatility[product].n = 0
    \/ SigmaLt(self.volatility[product], 100)

\* the SQUID_INK branch
trade_squid(self, product, position, order_depth, fair_value) ==
    LET min_edge == product_parameters[product].min_edge
        checked == check_mean_reversion_signal(self, product, fair_value)
        signal == checked.signal
        has_asks == DOMAIN order_depth.sell_orders # {}
        has_bids == DOMAIN order_depth.buy_orders # {}
        best_ask == SetMin(DOMAIN order_depth.sell_orders)
        best_bid == SetMax(DOMAIN order_depth.buy_orders)
    IN  IF checked.raised # NoError THEN Failed(checked.raised)
        ELSE IF ~acceptable_volatility(self, product) THEN Traded(<<>>)
        ELSE IF signal = "BUY" /\ has_asks
        THEN IF Lt(Num(best_ask), Add(fair_value, Num(min_edge)))
             THEN Traded(buy_at_best_ask(self, product, position, order_depth))
             ELSE Traded(<<>>)
        ELSE IF signal = "SELL" /\ has_bids
        THEN IF Lt(Sub(fair_value, Num(min_edge)), Num(best_bid))
             THEN Traded(sell_at_best_bid(self, product, position, order_depth))
             ELSE Traded(<<>>)
        ELSE Traded(<<>>)

trade(self, product, position, order_depth, fair_value) ==
    IF product = "RAINFOREST_RESIN"
    THEN trade_resin(self, product, position, order_depth, fair_value)
    ELSE IF product = "KELP"
    THEN trade_kelp(self, product, position, order_depth, fair_value)
    ELSE IF product = "SQUID_INK"
    THEN trade_squid(self, product, position, order_depth, fair_value)
    ELSE Traded(<<>>)

\* if fair_value is not None: self.update_market_metrics(...)
observe_not_none(self, product, fair_value) ==
    IF ~IsNone(fair_value)
    THEN update_market_metrics(self, product, fair_value)
    ELSE [self |-> self, raised |-> NoError]

\* if fair_value: self.update_market_metrics(product, fair_value)
observe(self, product, fair_value) ==
    IF Truthy(fair_value)
    THEN update_market_metrics(self, product, fair_value)
    ELSE [self |-> self, raised |-> NoError]

\* what one iteration of the loop leaves: [self, orders, raised]
Step(self, traded) ==
    [self |-> self, orders |-> traded.orders, raised |-> traded.raised]

\* the strategy branch of a product, on the trader the metrics update left
strategy(observed, product, position, order_depth, fair_value) ==
    IF observed.raised # NoError
    THEN Step(observed.self, Failed(observed.raised))
    ELSE Step(observed.self,
              trade(observed.self, product, position, order_depth,
                    fair_value))

\* the iteration for a book with orders, from its fair value on
priced(self, product, position, order_depth, fair_value) ==
    strategy(observe(self, product, fair_value), product, position,
             order_depth, fair_value)

\* one iteration of the loop over state.order_depths
process(self, state, product) ==
    IF DOMAIN state.order_depths[product].buy_orders = {}
       /\ DOMAIN state.order_depths[product].sell_orders = {}
    THEN Step(self, Traded(<<>>))
    ELSE priced(self, product, Get(state.position, product, 0),
                state.order_depths[product],
                calculate_fair_value(product, state.order_depths[product]))

\* the loop over state.order_depths, in the dictionary's iteration order,
\* from its i-th product on; an exception ends it
RECURSIVE run_loop(_, _, _, _)
RECURSIVE next_product(_, _, _, _)
next_product(step, result0, state, i) ==
    IF step.raised # NoError
    THEN [self |-> step.self, result |-> result0, raised |-> step.raised]
    ELSE run_loop(step.self,
                  [result0 EXCEPT ![state.iteration[i]] = step.orders],
                  state, i + 1)

run_loop(self, result0, state, i) ==
    IF i > Len(state.iteration)
    THEN [self |-> self, result |-> result0, raised |-> NoError]
    ELSE next_product(process(self, state, state.iteration[i]), result0,
                      state, i)

\* what Trader.run returns after the loop.  When an exception leaves the
\* call nothing is returned: result and traderData are then empty.
return(looped) ==
    IF looped.raised # NoError
    THEN [self |-> looped.self, result |-> EmptyDict,
          traderData |-> EmptyData, raised |-> looped.raised]
    ELSE [self |-> looped.self, result |-> looped.result,
          traderData |-> encode(looped.self), raised |-> NoError]

\* Trader.run: [self, result, traderData, raised]
run_restored(restored, state) ==
    IF restored.raised # NoError
    THEN return([self |-> restored.self, raised |-> restored.raised])
    ELSE return(run_loop(restored.self,
                         [product \in DOMAIN state.order_depths |-> <<>>],
                         state, 1))

run(trader, state) == run_restored(restore(trader, state), state)

-----------------------------------------------------------------------------
(* The exchange: the order books and positions it hands to Trader.run *)

MaxHistory == 6

MaxMoves == 2

MaxLongHistory == 21

MaxLongMoves == 1

\* a price level near which the exchange quotes each product
Reference(product) == IF product = "RAINFOREST_RESIN" THEN 10000 ELSE 100

OrderDepth(buy_orders, sell_orders) ==
    [buy_orders |-> buy_orders, sell_orders |-> sell_orders]

\* The books the exchange shows: both sides empty; asks only; bids only; a
\* two-sided book around the reference; a two-sided book above it; a
\* two-sided book whose fair value is 0.  Sell volumes are negative.
Shapes == {"empty", "asks", "bids", "quiet", "high", "zero"}

Book(product, shape) ==
    LET ref == Reference(product)
    IN  CASE shape = "empty" -> OrderDepth(<<>>, <<>>)
          [] shape = "asks"  -> OrderDepth(<<>>, (ref - 10) :> -5)
          [] shape = "bids"  -> OrderDepth((ref + 10) :> 5, <<>>)
          [] shape = "quiet" -> OrderDepth((ref - 1) :> 2, (ref + 1) :> -2)
          [] shape = "high"  -> OrderDepth((ref + 2) :> 1, (ref + 3) :> -1)
          [] shape = "zero"  -> OrderDepth((-1) :> 1, 1 :> -1)

OrderDepths(products, shape) ==
    [product \in products |-> Book(product, shape)]

\* state.position: every listed product short at the limit, flat (no entry
\* in the dictionary) or long at the limit
Holdings == {-1, 0, 1}

Position(products, holding) ==
    IF holding = 0 THEN EmptyDict
    ELSE [product \in products |->
             holding * product_parameters[product].position_limit]

Range(xs) == {xs[i] : i \in 1..Len(xs)}

\* the iteration orders of a dictionary whose keys are products
Listings ==
    {xs \in UNION {[1..k -> Products] : k \in 1..Cardinality(Products)} :
        Cardinality(Range(xs)) = Len(xs)}

NoCall == [fn |-> "none"]

FirstState ==
    [order_depths |-> EmptyDict, iteration |-> <<>>, position |-> EmptyDict,
     traderData |-> EmptyData]

Init ==
    /\ historical_prices = NewTrader.historical_prices
    /\ volatility = NewTrader.volatility
    /\ momentum = NewTrader.momentum
    /\ tstate = FirstState
    /\ result = EmptyDict
    /\ traderData = EmptyData
    /\ raised = NoError
    /\ moves = 0
    /\ call = NoCall

\* The effect of one call of Trader.run on the program's state.  An
\* exception returns nothing: the exchange keeps the blob it had.
Ran(state) ==
    \E out \in {run([historical_prices |-> historical_prices,
                     volatility |-> volatility, momentum |-> momentum],
                    state)} :
        /\ tstate' = state
        /\ historical_prices' = out.self.historical_prices
        /\ volatility' = out.self.volatility
        /\ momentum' = out.self.momentum
        /\ result' = out.result
        /\ raised' = out.raised
        /\ traderData' = IF out.raised = NoError THEN out.traderData
                         ELSE traderData

\* One tick: the exchange calls Trader.run with the blob the previous tick
\* returned.  The exchange lists the same products every tick and changes
\* its books between ticks at most maxmoves times; histories stay below
\* maxlen entries.  A tick that raised ends the run of the program.
Tick(iteration, order_depths, position, maxlen, maxmoves) ==
    LET moved == tstate.iteration # <<>> /\ order_depths # tstate.order_depths
    IN  /\ raised = NoError
        /\ tstate.iteration # <<>> => iteration = tstate.iteration
        /\ \A product \in Range(iteration) :
               Len(Get(historical_prices, product, <<>>)) < maxlen
        /\ moved => moves < maxmoves
        /\ moves' = IF moved THEN moves + 1 ELSE moves
        /\ Ran([order_depths |-> order_depths, iteration |-> iteration,
                position |-> position, traderData |-> traderData])
        /\ UNCHANGED call

\* ticks over any listing of the products
Next ==
    \E iteration \in Listings, shape \in Shapes, holding \in Holdings :
        Tick(iteration, OrderDepths(Range(iteration), shape),
             Position(Range(iteration), holding), MaxHistory, MaxMoves)

Spec == Init /\ [][Next]_vars

\* long runs of an exchange that lists one product
NextLong ==
    \E product \in Products, shape \in Shapes, holding \in Holdings :
        Tick(<<product>>, OrderDepths({product}, shape),
             Position({product}, holding), MaxLongHistory, MaxLongMoves)

SpecLong == Init /\ [][NextLong]_vars

-----------------------------------------------------------------------------
(* Direct calls of the functions, on trader states that ticks produce *)

\* The trader after ticks whose fair values were prices (none of them 0):
\* every update_market_metrics overwrites the two indicators from the
\* latest window, so they are those of the last update.
Observed(self, product, prices) ==
    update_momentum(
        update_volatility(
            [self EXCEPT !.historical_prices = Put(@, product, prices)],
            product),
        product).self

\* every product's history at the given offsets from its reference price
ObservedAll(offsets) ==
    LET prices(product) ==
            [i \in 1..Len(offsets) |-> Num(Reference(product) + offsets[i])]
    IN  Observed(Observed(Observed(NewTrader, "RAINFOREST_RESIN",
                                   prices("RAINFOREST_RESIN")),
                          "KELP", prices("KELP")),
                 "SQUID_INK", prices("SQUID_INK"))

StartWith(trader) ==
    /\ historical_prices = trader.historical_prices
    /\ volatility = trader.volatility
    /\ momentum = trader.momentum
    /\ tstate = FirstState
    /\ result = EmptyDict
    /\ traderData = EmptyData
    /\ raised = NoError
    /\ moves = 0
    /\ call = NoCall

Self ==
    [historical_prices |-> historical_prices, volatility |-> volatility,
     momentum |-> momentum]

\* one direct call, made on the initial trader
Called(record) ==
    /\ call = NoCall
    /\ call' = record
    /\ UNCHANGED <<historical_prices, volatility, momentum, tstate, result,
                   traderData, raised, moves>>

(* get_order_volume *)

MaxSwing == 4

MaxVolume == 6

\* offsets of a full volatility window that alternate between 0 and
\* 50 * swing: the standard deviation is about 25.6 * swing
Swinging(swing) == [i \in 1..20 |-> IF i % 2 = 0 THEN 0 ELSE 50 * swing]

VolumeTraders ==
    {ObservedAll(<<0, 0>>)}
        \cup {ObservedAll(Swinging(swing)) : swing \in 0..MaxSwing}

VolumePositions == {-51, -50, -49, -35, -15, 0, 5, 25, 45, 50, 51}

InitVolume == \E trader \in VolumeTraders : StartWith(trader)

CallGetOrderVolume(product, position, side, available_volume) ==
    Called([fn |-> "get_order_volume", product |-> product,
            position |-> position, side |-> side,
            available_volume |-> available_volume,
            value |-> get_order_volume(Self, product, position, side,
                                       available_volume)])

NextVolume ==
    \E product \in Products, position \in VolumePositions,
       side \in {"BUY", "SELL"}, available_volume \in 0..MaxVolume :
        CallGetOrderVolume(product, position, side, available_volume)

SpecVolume == InitVolume /\ [][NextVolume]_vars

(* calculate_fair_value *)

BidSides ==
    { <<>>, 99 :> 2, (99 :> 2) @@ (98 :> 4), 97 :> 1, 99 :> 0, 0 :> 3 }

AskSides ==
    { <<>>, 101 :> -2, (101 :> -2) @@ (103 :> -6), 104 :> -1, 101 :> 0,
      0 :> -3 }

CallCalculateFairValue(product, order_depth) ==
    Called([fn |-> "calculate_fair_value", product |-> product,
            order_depth |-> order_depth,
            value |-> calculate_fair_value(product, order_depth)])

NextFairValue ==
    \E product \in Products, buy_orders \in BidSides, sell_orders \in AskSides :
        CallCalculateFairValue(product, OrderDepth(buy_orders, sell_orders))

SpecFairValue == Init /\ [][NextFairValue]_vars

(* check_mean_reversion_signal *)

MaxSpikes == 2

SpikePrices == {Num(97), Rat(207, 2)}

CurrentPrices == {Num(96), Num(99), Num(100), Rat(201, 2), Num(105)}

\* the histories of length n that are 100 except at up to MaxSpikes places
SpikedHistories(n) ==
    UNION { { [i \in 1..n |-> IF i \in at THEN spikes[i] ELSE Num(100)] :
                spikes \in [at -> SpikePrices] } :
            at \in {places \in SUBSET (1..n) : Cardinality(places) <= MaxSpikes} }

InitSignal ==
    \E extra \in {0, 1} :
        \E prices \in SpikedHistories(
                product_parameters["SQUID_INK"].mean_reversion_window + extra) :
            StartWith(Observed(NewTrader, "SQUID_INK", prices))

CallCheckMeanReversionSignal(product, current_price) ==
    Called([fn |-> "check_mean_reversion_signal", product |-> product,
            current_price |-> current_price,
            value |-> check_mean_reversion_signal(Self, product,
                                                  current_price)])

NextSignal ==
    \E current_price \in CurrentPrices :
        CallCheckMeanReversionSignal("SQUID_INK", current_price)

SpecSignal == InitSignal /\ [][NextSignal]_vars

(* Trader.run of a fresh process on a prior blob with fields missing *)

Fields == {"historical_prices", "volatility", "momentum"}

\* what earlier ticks saved, with only the fields in kept
SavedBlobs ==
    { encode(Restrict(saved, kept)) :
        saved \in { ObservedAll(<<0>>), ObservedAll(<<0, 0, 0, 0, 3>>),
                    ObservedAll(Swinging(1)) },
        kept \in SUBSET Fields }

\* the first call of Trader.run in a process, given a blob of SavedBlobs
Resume(blob, iteration, order_depths, position) ==
    /\ tstate = FirstState
    /\ Ran([order_depths |-> order_depths, iteration |-> iteration,
            position |-> position, traderData |-> blob])
    /\ UNCHANGED <<moves, call>>

NextRestore ==
    \E blob \in SavedBlobs, iteration \in Listings \cup {<<>>},
       shape \in Shapes, holding \in Holdings :
        Resume(blob, iteration, OrderDepths(Range(iteration), shape),
               Position(Range(iteration), holding))

SpecRestore == Init /\ [][NextRestore]_vars

-----------------------------------------------------------------------------
(* Claims about the ticks *)

Ticked == tstate.iteration # <<>>

Listed == Range(tstate.iteration)

LimitOf(product) == product_parameters[product].position_limit

\* C1: every order returned for a product whose position p is within the
\* limit has a signed quantity q with |p + q| <= position_limit.
C1_OrdersKeepPositionWithinLimit ==
    \A product \in DOMAIN result :
        \A i \in 1..Len(result[product]) :
            LET p == Get(tstate.position, product, 0)
                q == result[product][i].quantity
            IN  Abs(p) <= LimitOf(product) => Abs(p + q) <= LimitOf(product)

\* C2: Trader.run never raises: every tick returns an order list per product
\* and a new state blob, and a product whose fair value is undefined this
\* tick gets an empty order list.
C2_RunNeverRaises ==
    /\ raised = NoError
    /\ Ticked =>
        /\ DOMAIN result = Listed
        /\ traderData.text # ""
        /\ \A product \in Listed :
               IsNone(calculate_fair_value(product,
                                           tstate.order_depths[product]))
                   => result[product] = <<>>

HistoryIn(blob, product) ==
    IF blob.text = "" THEN <<>>
    ELSE Get(decode(blob).historical_prices, product, <<>>)

IsPrefix(xs, ys) == Len(xs) <= Len(ys) /\ SubSeq(ys, 1, Len(xs)) = xs

\* C7: across ticks chained through the blob, the history stored for a
\* product after a tick has the history stored before it as a prefix and is
\* longer by at most one element, the fair value computed this tick.
C7_HistoryOnlyAppended ==
    [][\A product \in Products :
          LET before == HistoryIn(traderData, product)
              after  == HistoryIn(traderData', product)
          IN  /\ IsPrefix(before, after)
              /\ Len(after) <= Len(before) + 1
              /\ Len(after) = Len(before) + 1 =>
                    /\ product \in Range(tstate'.iteration)
                    /\ after[Len(after)] =
                           calculate_fair_value(product,
                               tstate'.order_depths[product])]_vars

\* a stored history of several ticks whose prices differ, beside a listed
\* product for which nothing was appended
C7_Witness ==
    /\ raised = NoError
    /\ \E product \in Listed :
           LET prices == HistoryIn(traderData, product)
           IN  Len(prices) >= 3 /\ prices[1] # prices[Len(prices)]
    /\ \E product \in Listed : Len(HistoryIn(traderData, product)) <= 1

WindowOf(product, name, default) ==
    Get(product_parameters[product], name, default)

\* C8: in every state reached from the empty state, a volatility is stored
\* for a product only if its history has at least volatility_window entries,
\* and a momentum only if it has at least momentum_window entries.
C8_IndicatorsNeedHistory ==
    /\ \A product \in DOMAIN volatility :
           Len(Get(historical_prices, product, <<>>))
               >= WindowOf(product, "volatility_window", 20)
    /\ \A product \in DOMAIN momentum :
           Len(Get(historical_prices, product, <<>>))
               >= WindowOf(product, "momentum_window", 5)
    /\ traderData.text # "" =>
          /\ \A product \in DOMAIN decode(traderData).volatility :
                 Len(HistoryIn(traderData, product))
                     >= WindowOf(product, "volatility_window", 20)
          /\ \A product \in DOMAIN decode(traderData).momentum :
                 Len(HistoryIn(traderData, product))
                     >= WindowOf(product, "momentum_window", 5)

\* a stored non-zero volatility, and a momentum, over a full window
C8_Witness ==
    /\ traderData.text # ""
    /\ \E product \in DOMAIN decode(traderData).volatility :
           /\ decode(traderData).volatility[product].n > 0
           /\ product \in DOMAIN decode(traderData).momentum
           /\ Len(HistoryIn(traderData, product))
                  >= WindowOf(product, "volatility_window", 20)

SoloState(product) ==
    [order_depths |-> Restrict(tstate.order_depths, {product}),
     iteration |-> <<product>>,
     position |-> Restrict(tstate.position, {product}),
     traderData |->
        IF tstate.traderData.text = "" THEN tstate.traderData
        ELSE encode([field \in DOMAIN decode(tstate.traderData) |->
                        Restrict(decode(tstate.traderData)[field],
                                 {product})])]

\* C10: the orders returned for a product and the state stored for it are
\* those of a tick given that product alone: they do not depend on the
\* other products' books or state, nor on the processing order.
C10_ProductsIndependent ==
    Ticked =>
        \A product \in Listed :
            LET solo == run(NewTrader, SoloState(product))
            IN  solo.raised = NoError =>
                    /\ raised = NoError
                    /\ product \in DOMAIN result
                    /\ result[product] = solo.result[product]
                    /\ Restrict(historical_prices, {product})
                           = solo.self.historical_prices
                    /\ Restrict(volatility, {product}) = solo.self.volatility
                    /\ Restrict(momentum, {product}) = solo.self.momentum

-----------------------------------------------------------------------------
(* Claims about the functions *)

\* C3: get_order_volume returns an integer q with
\* 0 <= q <= min(headroom, counter-volume, baseline cap of 10), where
\* headroom is limit - position for BUY and limit + position for SELL, and
\* q = 0 whenever headroom <= 0.
C3_VolumeWithinHeadroom ==
    call.fn = "get_order_volume" =>
        LET headroom ==
                IF call.side = "BUY" THEN LimitOf(call.product) - call.position
                ELSE LimitOf(call.product) + call.position
            most == Min2(Min2(headroom, call.available_volume), 10)
        IN  /\ call.value >= 0
            /\ call.value <= Max2(0, most)
            /\ headroom <= 0 => call.value = 0

\* C4: a tick given a non-empty blob that lacks one of its fields does not
\* fail on the missing field: that field is restored as empty and every
\* field present is restored with its stored value.
C4_MissingFieldStartsEmpty ==
    (/\ tstate.traderData.text # ""
     /\ Fields \ DOMAIN decode(tstate.traderData) # {}) =>
        /\ raised # "KeyError"
        /\ tstate.iteration = <<>> =>
               \A field \in Fields :
                   Self[field] = Get(decode(tstate.traderData), field,
                                     EmptyDict)

\* C5: for an order book with exactly one side non-empty, of positive
\* total volume, calculate_fair_value returns the volume-weighted average
\* price of that side.
C5_OneSidedBookGivesItsVwap ==
    call.fn = "calculate_fair_value" =>
        LET bids == call.order_depth.buy_orders
            asks == call.order_depth.sell_orders
        IN  /\ (DOMAIN asks = {} /\ total_volume(bids) > 0) =>
                   call.value = Rat(total_value(bids), total_volume(bids))
            /\ (DOMAIN bids = {} /\ total_volume(asks) > 0) =>
                   call.value = Rat(total_value(asks), total_volume(asks))

\* The signal the z-score calls for: with the last R prices a[i] / D of sum
\* S / D, the price p = p.n / p.d and X = p.n R D - S p.d,
\*     price - mean = X / (p.d R D),
\*     std^2 = SS / (R^2 D^2 (R - 1)),  SS = sum of (R a[i] - S)^2,
\* so that z > t iff X > 0 and t.d^2 (R - 1) X^2 > t.n^2 p.d^2 SS.
SignalOfZScore(prices, R, t, p) ==
    LET xs == Last(prices, R)
        D  == Denominator(xs, R)
        S  == ScaledSum(xs, D, R)
        SS == ScaledSqDev(xs, D, S, R)
        X  == p.n * R * D - S * p.d
        beyond == t.d * t.d * (R - 1) * X * X > t.n * t.n * p.d * p.d * SS
    IN  IF SS = 0 THEN NoSignal
        ELSE IF X > 0 /\ beyond THEN "SELL"
        ELSE IF X < 0 /\ beyond THEN "BUY"
        ELSE NoSignal

\* C6: for a history of at least mean_reversion_window R entries, with mean
\* and sample standard deviation (divisor R - 1) over the last R entries and
\* z = (price - mean) / std (0 when std = 0), check_mean_reversion_signal
\* returns SELL iff z > threshold, BUY iff z < -threshold, None otherwise.
C6_SignalFollowsZScore ==
    call.fn = "check_mean_reversion_signal" =>
        LET prices == historical_prices[call.product]
            R == product_parameters[call.product].mean_reversion_window
            t == product_parameters[call.product].std_dev_threshold
        IN  Len(prices) >= R =>
                /\ call.value.raised = NoError
                /\ call.value.signal =
                       SignalOfZScore(prices, R, t, call.current_price)

\* a SELL on a history longer than the window whose oldest entry, outside
\* the window, is a spike
C6_Witness ==
    /\ call.fn = "check_mean_reversion_signal"
    /\ call.value.signal = "SELL"
    /\ LET prices == historical_prices[call.product]
       IN  /\ Len(prices)
                  > product_parameters[call.product].mean_reversion_window
           /\ prices[1] # Num(100)
           /\ prices[Len(prices)] # Num(100)

====
